---- MODULE Spec2Model ----
(***************************************************************************)
(* Checkout session lifecycle engine of src/server.js (the hardened        *)
(* server, lines 265-735): session store, idempotency cache, line-item     *)
(* counter, the create/get/update/complete handlers and the two interval   *)
(* timers.                                                                 *)
(*                                                                         *)
(* Representation.                                                         *)
(*  - A JavaScript string is a sequence of one-character strings, so that  *)
(*    trim, toLowerCase, slice and the e-mail regular expression are       *)
(*    computed character by character.  The empty sequence is the empty    *)
(*    string; a buyer field that was never set (undefined) is shown as     *)
(*    Unset, which is falsy like the empty string (the code only ever      *)
(*    stores non-empty strings in these fields).                           *)
(*  - A value taken from the JSON request body is a record                 *)
(*    [t |-> "undefined" | "str" | "num", v |-> characters].               *)
(*  - Date.now() is the variable now, counted in TimeUnit milliseconds.    *)
(*  - A session's buyer is a JavaScript object shared by reference between *)
(*    the stored session and every response body spread from it; buyers    *)
(*    is the heap of these objects and a session or a cached body holds    *)
(*    the object's reference.                                              *)
(***************************************************************************)
EXTENDS Integers, Sequences, FiniteSets, TLC

VARIABLES
    now,               \* Date.now(), in units of TimeUnit
    nextClear,         \* due time of the processedRequests.clear() interval
    checkouts,         \* const checkouts = new Map()
    buyers,            \* heap of the sessions' buyer objects
    processedRequests, \* const processedRequests = new Map()
    lineItemCounter,   \* let lineItemCounter = 0
    response,          \* the last HTTP exchange: request line and reply
    seen,              \* history: first reply to each idempotency key since the last clear
    issued,            \* history: the session ids create has handed out
    served             \* history: how many requests were answered, how many idle periods passed

vars == <<now, nextClear, checkouts, buyers, processedRequests, lineItemCounter, response,
          seen, issued, served>>

-----------------------------------------------------------------------------
(* Bounds of the model *)

MaxRequests == 3
MaxIdle == 1
MaxExpiryRequests == 3
MaxExpiryIdle == 2

-----------------------------------------------------------------------------
(* Time *)

TimeUnit == 30 * 60 * 1000
SESSION_TTL == (6 * 60 * 60 * 1000) \div TimeUnit
CLEAR_INTERVAL == 3600000 \div TimeUnit

-----------------------------------------------------------------------------
(* JavaScript values *)

Unset == <<>>
Undefined == [t |-> "undefined", v |-> <<>>]
Str(s) == [t |-> "str", v |-> s]
Num(s) == [t |-> "num", v |-> s]

\* if (x): undefined and "" are falsy; the numbers of the model are non-zero
Truthy(x) == x.t = "num" \/ (x.t = "str" /\ x.v # <<>>)
IsString(x) == x.t = "str"

IsSpace(c) == c = " "

RECURSIVE TrimStart(_)
TrimStart(s) == IF s # <<>> /\ IsSpace(Head(s)) THEN TrimStart(Tail(s)) ELSE s

RECURSIVE TrimEnd(_)
TrimEnd(s) ==
    IF s # <<>> /\ IsSpace(s[Len(s)]) THEN TrimEnd(SubSeq(s, 1, Len(s) - 1)) ELSE s

Trim(s) == TrimEnd(TrimStart(s))

LowerChar(c) ==
    CASE c = "A" -> "a"
      [] c = "B" -> "b"
      [] c = "C" -> "c"
      [] OTHER -> c

ToLowerCase(s) == [i \in 1..Len(s) |-> LowerChar(s[i])]

\* s.slice(0, n)
Slice0(s, n) == SubSeq(s, 1, IF Len(s) < n THEN Len(s) ELSE n)

-----------------------------------------------------------------------------
(* Catalog and helper functions *)

PRODUCTS == <<
    [id |-> "1", name |-> "Red Roses", price |-> 299, stock |-> 100],
    [id |-> "2", name |-> "Pink Tulips", price |-> 199, stock |-> 80],
    [id |-> "3", name |-> "White Lilies", price |-> 399, stock |-> 60] >>

FindProduct_firstByDefault(productId) ==
    LET hits == {i \in 1..Len(PRODUCTS) : PRODUCTS[i].id = productId}
    IN  IF hits = {} THEN 1 ELSE CHOOSE i \in hits : \A j \in hits : i <= j

\* PRODUCTS.find(p => p.id === productId): index of the first match, 0 if none
FindProduct(productId) ==
    LET hits == {i \in 1..Len(PRODUCTS) : PRODUCTS[i].id = productId}
    IN  IF hits = {} THEN 0 ELSE CHOOSE i \in hits : \A j \in hits : i <= j

RECURSIVE SumAmounts(_)
SumAmounts(lineItems) ==
    IF lineItems = <<>> THEN 0
    ELSE Head(lineItems).item.price * Head(lineItems).quantity + SumAmounts(Tail(lineItems))

\* Math.round(subtotal * 0.08) for an integer subtotal >= 0: 8*subtotal is never
\* 50 modulo 100, so the double product is never within 0.01 of a half and the
\* rounding is the integer one
RoundTax(subtotal) == (8 * subtotal + 50) \div 100

calculateTotals_floorTax(lineItems) ==
    LET subtotal == SumAmounts(lineItems)
        tax == (8 * subtotal) \div 100
    IN  << [type |-> "subtotal", amount |-> subtotal, display_text |-> "Subtotal"],
           [type |-> "tax", amount |-> tax, display_text |-> "Tax (8%)"],
           [type |-> "total", amount |-> subtotal + tax, display_text |-> "Total"] >>

calculateTotals(lineItems) ==
    LET subtotal == SumAmounts(lineItems)
        tax == RoundTax(subtotal)
        total == subtotal + tax
    IN  << [type |-> "subtotal", amount |-> subtotal, display_text |-> "Subtotal"],
           [type |-> "tax", amount |-> tax, display_text |-> "Tax (8%)"],
           [type |-> "total", amount |-> total, display_text |-> "Total"] >>

\* the line item built for catalog entry p; counter is the value after lineItemCounter++
createLineItem(p, quantity, counter, t) ==
    [ id |-> <<"li", counter, t>>,
      item |-> [id |-> PRODUCTS[p].id, title |-> PRODUCTS[p].name, price |-> PRODUCTS[p].price],
      quantity |-> quantity,
      totals |-> << [type |-> "subtotal", amount |-> PRODUCTS[p].price * quantity] >> ]

\* line_items.map(li => createLineItem(li.item.id, li.quantity)).filter(li => li !== null)
\* started with lineItemCounter = counter; gives the list and the counter afterwards
RECURSIVE BuildLineItems(_, _, _)
BuildLineItems(input, counter, t) ==
    IF input = <<>> THEN [items |-> <<>>, counter |-> counter]
    ELSE LET p == FindProduct(Head(input).item.id)
         IN  IF p = 0 THEN BuildLineItems(Tail(input), counter, t)
             ELSE LET rest == BuildLineItems(Tail(input), counter + 1, t)
                  IN  [ items |-> <<createLineItem(p, Head(input).quantity, counter + 1, t)>>
                                    \o rest.items,
                        counter |-> rest.counter ]

determineStatus(buyer, line_items) ==
    IF buyer.email = Unset \/ buyer.full_name = Unset THEN "incomplete"
    ELSE IF Len(line_items) = 0 THEN "incomplete"
    ELSE "ready_for_complete"

MissingEmail ==
    [ type |-> "error", code |-> "missing_buyer_email", severity |-> "recoverable",
      content |-> "Buyer email is required", path |-> "$.buyer.email" ]

MissingName ==
    [ type |-> "error", code |-> "missing_buyer_name", severity |-> "recoverable",
      content |-> "Buyer name is required", path |-> "$.buyer.full_name" ]

validateCheckout_emailOnly(buyer) ==
    IF buyer.email = Unset THEN <<MissingEmail>> ELSE <<>>

validateCheckout(buyer) ==
    (IF buyer.email = Unset THEN <<MissingEmail>> ELSE <<>>)
        \o (IF buyer.full_name = Unset THEN <<MissingName>> ELSE <<>>)

Ok == "ok"

ItemError_exclusiveUpper(entry) ==
    IF entry.item.id = "" \/ entry.quantity = 0
        THEN "Each line item must have item.id and quantity"
    ELSE IF entry.quantity < 1 \/ entry.quantity >= 100
        THEN "Quantity must be between 1 and 100"
    ELSE Ok

\* the message of the Error thrown for one entry, Ok if none; a missing item.id is ""
\* and the quantities of the model are integers, of which only 0 is falsy
ItemError(entry) ==
    IF entry.item.id = "" \/ entry.quantity = 0
        THEN "Each line item must have item.id and quantity"
    ELSE IF entry.quantity < 1 \/ entry.quantity > 100
        THEN "Quantity must be between 1 and 100"
    ELSE Ok

\* validateLineItems on an array: the message of the Error it throws, Ok if it returns
validateLineItems(lineItems) ==
    IF Len(lineItems) = 0 THEN "line_items must be a non-empty array"
    ELSE LET bad == {i \in 1..Len(lineItems) : ItemError(lineItems[i]) # Ok}
         IN  IF bad = {} THEN Ok
             ELSE ItemError(lineItems[CHOOSE i \in bad : \A j \in bad : i <= j])

\* /^[^\s@]+@[^\s@]+\.[^\s@]+$/.test(s)
EmailRegexTest(s) ==
    /\ \A i \in 1..Len(s) : ~IsSpace(s[i])
    /\ Cardinality({i \in 1..Len(s) : s[i] = "@"}) = 1
    /\ \E i \in 2..Len(s) :
          /\ s[i] = "@"
          /\ \E j \in (i + 2)..(Len(s) - 1) : s[j] = "."

\* sanitizeEmail on a truthy string: the cleaned address, Unset for null
sanitizeEmail(email) ==
    LET trimmed == ToLowerCase(Trim(email))
    IN  IF EmailRegexTest(trimmed) THEN trimmed ELSE Unset

NAME_LIMIT == 100

\* sanitizeName on a truthy string
sanitizeName(name) == Slice0(Trim(name), NAME_LIMIT)

ucpError(code, message) ==
    [ status |-> "canceled",
      messages |-> << [ type |-> "error", code |-> code,
                        severity |-> "requires_buyer_input", content |-> message ] >> ]

-----------------------------------------------------------------------------
(* Requests the model sends *)

NoKey == ""
Keys == {"k1"}
KeyInputs == {NoKey} \cup Keys

NoSuchId == 0 - 1

Entry(productId, quantity) == [item |-> [id |-> productId], quantity |-> quantity]

NoLineItems == [given |-> FALSE, list |-> <<>>]
Given(list) == [given |-> TRUE, list |-> list]

LineItemInputs ==
    { NoLineItems,
      Given(<<>>),
      Given(<<Entry("1", 12)>>),
      Given(<<Entry("9", 1)>>),
      Given(<<Entry("9", 1), Entry("3", 101)>>) }

NoBuyer == [given |-> FALSE, email |-> Undefined, full_name |-> Undefined]

Buyer(e, n) == [given |-> TRUE, email |-> e, full_name |-> n]

GoodEmail == Str(<<" ", "A", "@", "b", ".", "c", " ">>)
GoodName == Str(<<" ", "A", " ", "B", " ">>)

BuyerInputs ==
    { NoBuyer,
      Buyer(GoodEmail, Undefined),
      Buyer(Undefined, GoodName),
      Buyer(GoodEmail, GoodName),
      Buyer(Str(<<"a", "@", "b">>), Str(<<" ">>)),
      Buyer(GoodEmail, Num(<<"7">>)) }

CurrencyInputs == {""}

-----------------------------------------------------------------------------
(* Handlers *)

EmptyBuyer == [email |-> Unset, full_name |-> Unset]
NoOrder == <<>>

patchBuyer_overwrites(b, buyer) ==
    LET b1 == IF Truthy(buyer.email) /\ IsString(buyer.email)
              THEN [b EXCEPT !.email = sanitizeEmail(buyer.email.v)]
              ELSE b
        b2 == IF Truthy(buyer.full_name) /\ IsString(buyer.full_name)
              THEN [b1 EXCEPT !.full_name = sanitizeName(buyer.full_name.v)]
              ELSE b1
    IN  IF ~buyer.given THEN [buyer |-> b, error |-> Ok]
        ELSE IF Truthy(buyer.email) /\ ~IsString(buyer.email)
            THEN [buyer |-> b, error |-> "email.trim is not a function"]
        ELSE IF Truthy(buyer.full_name) /\ ~IsString(buyer.full_name)
            THEN [buyer |-> b1, error |-> "name.trim is not a function"]
        ELSE [buyer |-> b2, error |-> Ok]

\* the buyer block shared by create and update: the fields of the request's buyer are
\* cleaned one after the other and written into b; a truthy value that is no string has
\* no trim method, and the TypeError leaves b as far as it was written
patchBuyer(b, buyer) ==
    LET b1 == IF Truthy(buyer.email) /\ IsString(buyer.email)
                   /\ sanitizeEmail(buyer.email.v) # Unset
              THEN [b EXCEPT !.email = sanitizeEmail(buyer.email.v)]
              ELSE b
        b2 == IF Truthy(buyer.full_name) /\ IsString(buyer.full_name)
                   /\ sanitizeName(buyer.full_name.v) # <<>>
              THEN [b1 EXCEPT !.full_name = sanitizeName(buyer.full_name.v)]
              ELSE b1
    IN  IF ~buyer.given THEN [buyer |-> b, error |-> Ok]
        ELSE IF Truthy(buyer.email) /\ ~IsString(buyer.email)
            THEN [buyer |-> b, error |-> "email.trim is not a function"]
        ELSE IF Truthy(buyer.full_name) /\ ~IsString(buyer.full_name)
            THEN [buyer |-> b1, error |-> "name.trim is not a function"]
        ELSE [buyer |-> b2, error |-> Ok]

replaceLineItems_staleTotals(checkout, lineItemsResponse) ==
    [checkout EXCEPT !.line_items = lineItemsResponse]

\* checkout.line_items = lineItemsResponse; checkout.totals = calculateTotals(lineItemsResponse)
replaceLineItems(checkout, lineItemsResponse) ==
    [checkout EXCEPT !.line_items = lineItemsResponse,
                     !.totals = calculateTotals(lineItemsResponse)]

IsExpired_atExpiry(checkout, t) == checkout.expires_at <= t

\* new Date(checkout.expires_at) < new Date()
IsExpired(checkout, t) == checkout.expires_at < t

\* JSON.stringify of { ucp, ...checkout }: the buyer object is read when the body is sent
Serialize(checkout, heap) == [checkout EXCEPT !.buyer = heap[checkout.buyer]]

Reply(op, id, key, replayed, code, body) ==
    [op |-> op, id |-> id, key |-> key, replayed |-> replayed, code |-> code, body |-> body]

\* handleIdempotency answers the request from processedRequests
IsReplay(key) == key # NoKey /\ key \in DOMAIN processedRequests

Remember(key, reply) ==
    IF key # NoKey /\ key \notin DOMAIN seen
    THEN seen @@ (key :> [op |-> reply.op, code |-> reply.code, body |-> reply.body])
    ELSE seen

\* if (idempotencyKey && processedRequests.has(idempotencyKey))
\*     return res.json(processedRequests.get(idempotencyKey))
handleIdempotency(op, id, key) ==
    /\ response' = Reply(op, id, key, TRUE, 200, Serialize(processedRequests[key], buyers))
    /\ UNCHANGED <<now, nextClear, checkouts, buyers, processedRequests, lineItemCounter,
                   seen, issued>>

\* if (req.idempotencyKey) processedRequests.set(req.idempotencyKey, responseData)
Store(key, responseData) ==
    IF key # NoKey THEN (key :> responseData) @@ processedRequests ELSE processedRequests

\* res.status(code).json(body) on a path that writes nothing
Refuse(op, id, key, code, body) ==
    /\ response' = Reply(op, id, key, FALSE, code, body)
    /\ seen' = Remember(key, response')
    /\ UNCHANGED <<now, nextClear, checkouts, buyers, processedRequests, lineItemCounter,
                   issued>>

Create(line_items, buyer, currency, key) ==
    IF IsReplay(key) THEN handleIdempotency("create", NoSuchId, key)
    ELSE
    LET validation == IF line_items.given /\ Len(line_items.list) > 0
                      THEN validateLineItems(line_items.list) ELSE Ok
        checkoutId == now
        built == BuildLineItems(line_items.list, lineItemCounter, now)
        sanitized == patchBuyer(EmptyBuyer, buyer)
        ref == Cardinality(DOMAIN buyers) + 1
        checkout == [ id |-> checkoutId,
                      line_items |-> built.items,
                      buyer |-> ref,
                      currency |-> IF currency = "" THEN "USD" ELSE currency,
                      totals |-> calculateTotals(built.items),
                      messages |-> validateCheckout(sanitized.buyer),
                      expires_at |-> now + SESSION_TTL,
                      status |-> determineStatus(sanitized.buyer, built.items),
                      order |-> NoOrder ]
    IN  IF validation # Ok
            THEN Refuse("create", NoSuchId, key, 400, ucpError("invalid_request", validation))
        ELSE IF sanitized.error # Ok
            THEN /\ lineItemCounter' = built.counter
                 /\ response' = Reply("create", NoSuchId, key, FALSE, 400,
                                      ucpError("invalid_request", sanitized.error))
                 /\ seen' = Remember(key, response')
                 /\ UNCHANGED <<now, nextClear, checkouts, buyers, processedRequests, issued>>
        ELSE /\ lineItemCounter' = built.counter
             /\ buyers' = (ref :> sanitized.buyer) @@ buyers
             /\ checkouts' = (checkoutId :> checkout) @@ checkouts
             /\ processedRequests' = Store(key, checkout)
             /\ response' = Reply("create", NoSuchId, key, FALSE, 201,
                                  Serialize(checkout, buyers'))
             /\ seen' = Remember(key, response')
             /\ issued' = issued \cup {checkoutId}
             /\ UNCHANGED <<now, nextClear>>

Without_clearsStore(id) == <<>>

\* checkouts.delete(id)
Without(id) == [i \in DOMAIN checkouts \ {id} |-> checkouts[i]]

Evict_keepsSession(op, id, key) ==
    Refuse(op, id, key, 404, ucpError("expired", "Checkout session has expired"))

\* the branch of get, update and complete that finds the session expired
Evict(op, id, key) ==
    /\ checkouts' = Without(id)
    /\ response' = Reply(op, id, key, FALSE, 404,
                         ucpError("expired", "Checkout session has expired"))
    /\ seen' = Remember(key, response')
    /\ UNCHANGED <<now, nextClear, buyers, processedRequests, lineItemCounter, issued>>

NotFound(op, id, key) ==
    Refuse(op, id, key, 404, ucpError("not_found", "Checkout not found"))

Get(id) ==
    IF id \notin DOMAIN checkouts THEN NotFound("get", id, NoKey)
    ELSE IF IsExpired(checkouts[id], now) THEN Evict("get", id, NoKey)
    ELSE Refuse("get", id, NoKey, 200, Serialize(checkouts[id], buyers))

Update(id, line_items, buyer, key) ==
    IF IsReplay(key) THEN handleIdempotency("update", id, key)
    ELSE IF id \notin DOMAIN checkouts THEN NotFound("update", id, key)
    ELSE IF IsExpired(checkouts[id], now) THEN Evict("update", id, key)
    ELSE
    LET checkout == checkouts[id]
        validation == IF line_items.given THEN validateLineItems(line_items.list) ELSE Ok
        built == BuildLineItems(line_items.list, lineItemCounter, now)
        replaced == IF line_items.given THEN replaceLineItems(checkout, built.items)
                    ELSE checkout
        patched == patchBuyer(buyers[checkout.buyer], buyer)
        updated == [replaced EXCEPT !.messages = validateCheckout(patched.buyer),
                                    !.status = determineStatus(patched.buyer, replaced.line_items)]
    IN  IF validation # Ok
            THEN Refuse("update", id, key, 400, ucpError("invalid_request", validation))
        ELSE /\ lineItemCounter' = built.counter
             /\ buyers' = [buyers EXCEPT ![checkout.buyer] = patched.buyer]
             /\ UNCHANGED <<now, nextClear, issued>>
             /\ IF patched.error # Ok
                \* the catch block answers; what was written to the session object stays
                THEN /\ checkouts' = [checkouts EXCEPT ![id] = replaced]
                     /\ response' = Reply("update", id, key, FALSE, 400,
                                          ucpError("invalid_request", patched.error))
                     /\ seen' = Remember(key, response')
                     /\ UNCHANGED processedRequests
                ELSE /\ checkouts' = [checkouts EXCEPT ![id] = updated]
                     /\ processedRequests' = Store(key, updated)
                     /\ response' = Reply("update", id, key, FALSE, 200,
                                          Serialize(updated, buyers'))
                     /\ seen' = Remember(key, response')

NotReadyMessage ==
    [ type |-> "error", code |-> "not_ready", severity |-> "requires_buyer_input",
      content |-> "Please add email and full name first" ]

OrderConfirmed ==
    [ type |-> "info", content |-> "Order placed successfully!", code |-> "order_confirmed" ]

\* { ucp, ...checkout, messages: [not_ready] }, before it is serialized
notReady_appended(checkout) ==
    [checkout EXCEPT !.messages = checkout.messages \o <<NotReadyMessage>>]

notReady(checkout) == [checkout EXCEPT !.messages = <<NotReadyMessage>>]

placeOrder_keepsStatus(checkout, t) ==
    [checkout EXCEPT !.order = << [id |-> <<"ORD", t>>, permalink_url |-> <<"orders", "ORD", t>>] >>,
                     !.messages = <<OrderConfirmed>>]

\* checkout.order = {...}; checkout.status = 'completed'; checkout.messages = [...]
placeOrder(checkout, t) ==
    [checkout EXCEPT !.order = << [id |-> <<"ORD", t>>, permalink_url |-> <<"orders", "ORD", t>>] >>,
                     !.status = "completed",
                     !.messages = <<OrderConfirmed>>]

Complete(id, key) ==
    IF IsReplay(key) THEN handleIdempotency("complete", id, key)
    ELSE IF id \notin DOMAIN checkouts THEN NotFound("complete", id, key)
    ELSE IF IsExpired(checkouts[id], now) THEN Evict("complete", id, key)
    ELSE IF checkouts[id].status # "ready_for_complete"
        THEN Refuse("complete", id, key, 400, Serialize(notReady(checkouts[id]), buyers))
    ELSE LET completed == placeOrder(checkouts[id], now)
         IN  /\ checkouts' = [checkouts EXCEPT ![id] = completed]
             /\ processedRequests' = Store(key, completed)
             /\ response' = Reply("complete", id, key, FALSE, 200, Serialize(completed, buyers))
             /\ seen' = Remember(key, response')
             /\ UNCHANGED <<now, nextClear, buyers, lineItemCounter, issued>>

Sweep_atExpiry ==
    /\ checkouts' = [i \in {j \in DOMAIN checkouts : checkouts[j].expires_at > now} |-> checkouts[i]]
    /\ UNCHANGED <<now, nextClear, buyers, processedRequests, lineItemCounter, response,
                   seen, issued, served>>

\* setInterval(..., 60000) callback.  The interval is shorter than TimeUnit and a
\* request may arrive between the moment a session expires and the next run, so the
\* model lets the callback run at any instant and does not force it
Sweep ==
    /\ checkouts' = [i \in {j \in DOMAIN checkouts : ~IsExpired(checkouts[j], now)} |-> checkouts[i]]
    /\ UNCHANGED <<now, nextClear, buyers, processedRequests, lineItemCounter, response,
                   seen, issued, served>>

\* setInterval(() => processedRequests.clear(), 3600000) callback, due at this instant
ClearProcessed ==
    /\ now = nextClear
    /\ nextClear' = nextClear + CLEAR_INTERVAL
    /\ processedRequests' = <<>>
    /\ seen' = <<>>
    /\ UNCHANGED <<now, checkouts, buyers, lineItemCounter, response, issued, served>>

\* the first due time of the clear interval at or after t
ClearDueFrom(t) == CLEAR_INTERVAL * ((t + CLEAR_INTERVAL - 1) \div CLEAR_INTERVAL)

\* d units pass without a request; a clear that was due before the end of the period
\* has run in it
Idle(d) ==
    /\ now' = now + d
    /\ IF nextClear < now + d
       THEN /\ processedRequests' = <<>>
            /\ seen' = <<>>
            /\ nextClear' = ClearDueFrom(now + d)
       ELSE UNCHANGED <<processedRequests, seen, nextClear>>
    /\ UNCHANGED <<checkouts, buyers, lineItemCounter, response, issued>>

-----------------------------------------------------------------------------
(* Specification *)

IdInputs == issued \cup {NoSuchId}

Init ==
    /\ now = 0
    /\ nextClear = CLEAR_INTERVAL
    /\ checkouts = <<>>
    /\ buyers = <<>>
    /\ processedRequests = <<>>
    /\ lineItemCounter = 0
    /\ response = Reply("none", NoSuchId, NoKey, FALSE, 0, <<>>)
    /\ seen = <<>>
    /\ issued = {}
    /\ served = [requests |-> 0, idle |-> 0]

\* one more request, of at most limit
Request(limit) ==
    /\ served.requests < limit
    /\ served' = [served EXCEPT !.requests = @ + 1]

CreateWith(limit, L, B) ==
    /\ Request(limit)
    /\ \E li \in L, b \in B, c \in CurrencyInputs, k \in KeyInputs : Create(li, b, c, k)

GetWith(limit) == Request(limit) /\ \E id \in IdInputs : Get(id)

UpdateWith(limit, L, B) ==
    /\ Request(limit)
    /\ \E id \in IdInputs, li \in L, b \in B, k \in KeyInputs : Update(id, li, b, k)

CompleteWith(limit) == Request(limit) /\ \E id \in IdInputs, k \in KeyInputs : Complete(id, k)

WaitWith(limit, periods) ==
    /\ served.idle < limit
    /\ served' = [served EXCEPT !.idle = @ + 1]
    /\ \E d \in periods : Idle(d)

(* Spec: every request of the input sets, on up to MaxRequests requests; the clock *)
(* moves from one run of the clear interval to the next, so no session expires.    *)

IdlePeriods == {CLEAR_INTERVAL}

CreateCall == CreateWith(MaxRequests, LineItemInputs, BuyerInputs)
GetCall == GetWith(MaxRequests)
UpdateCall == UpdateWith(MaxRequests, LineItemInputs, BuyerInputs)
CompleteCall == CompleteWith(MaxRequests)
Wait == WaitWith(MaxIdle, IdlePeriods)

Next ==
    \/ CreateCall
    \/ GetCall
    \/ UpdateCall
    \/ CompleteCall
    \/ Sweep
    \/ ClearProcessed
    \/ Wait

Spec == Init /\ [][Next]_vars

(* SpecExpiry: sessions that live through their six hours.  A cart and a buyer are  *)
(* given at creation or by update, and the idle periods are one unit and a session's *)
(* lifetime, so that a request can fall just before and just after the expiry.       *)

ExpiryLineItems == {NoLineItems, Given(<<Entry("1", 12)>>)}
ExpiryBuyers == {NoBuyer, Buyer(GoodEmail, GoodName)}
ExpiryPeriods == {1, SESSION_TTL}

CreateBeforeExpiry == CreateWith(MaxExpiryRequests, ExpiryLineItems, ExpiryBuyers)
GetBeforeExpiry == GetWith(MaxExpiryRequests)
UpdateBeforeExpiry == UpdateWith(MaxExpiryRequests, ExpiryLineItems, ExpiryBuyers)
CompleteBeforeExpiry == CompleteWith(MaxExpiryRequests)
WaitExpiry == WaitWith(MaxExpiryIdle, ExpiryPeriods)

NextExpiry ==
    \/ CreateBeforeExpiry
    \/ GetBeforeExpiry
    \/ UpdateBeforeExpiry
    \/ CompleteBeforeExpiry
    \/ Sweep
    \/ ClearProcessed
    \/ WaitExpiry

SpecExpiry == Init /\ [][NextExpiry]_vars

(* SpecSweep: SpecExpiry with the sweep timer running: setInterval calls the callback  *)
(* every minute for as long as the process lives, so a sweep that has a session to     *)
(* remove is not postponed forever.                                                    *)

SpecSweep == SpecExpiry /\ WF_vars(Sweep)

(* SpecCart: the carts a request can carry, before the first timer is due.  The line   *)
(* items take the quantities at and around both limits, a missing product reference,  *)
(* unknown products alone and mixed with known ones; the buyer is absent or valid.     *)

MaxCartRequests == 2

CartLineItems ==
    { NoLineItems,
      Given(<<>>),
      Given(<<Entry("1", 1)>>),
      Given(<<Entry("2", 100)>>),
      Given(<<Entry("3", 0)>>),
      Given(<<Entry("1", 101)>>),
      Given(<<Entry("", 5)>>),
      Given(<<Entry("9", 1)>>),
      Given(<<Entry("9", 2), Entry("3", 2), Entry("8", 1), Entry("1", 3)>>),
      Given(<<Entry("9", 1), Entry("3", 101)>>),
      Given(<<Entry("2", 5), Entry("1", 0 - 1)>>) }

CartBuyers == {NoBuyer, Buyer(GoodEmail, GoodName)}

CreateCart == CreateWith(MaxCartRequests, CartLineItems, CartBuyers)
GetCart == GetWith(MaxCartRequests)
UpdateCart == UpdateWith(MaxCartRequests, CartLineItems, CartBuyers)
CompleteCart == CompleteWith(MaxCartRequests)

NextCart ==
    \/ CreateCart
    \/ GetCart
    \/ UpdateCart
    \/ CompleteCart

SpecCart == Init /\ [][NextCart]_vars

(* SpecTotals: calculateTotals on every cart of one catalog product in a quantity the *)
(* validation lets through: one create on the empty store, then reads of the session. *)

MaxTotalsRequests == 2

MIN_QUANTITY == 1
MAX_QUANTITY == 100

SingleItemCarts ==
    { Given(<<Entry(PRODUCTS[p].id, q)>>) : p \in 1..Len(PRODUCTS), q \in MIN_QUANTITY..MAX_QUANTITY }

CreateSingle ==
    /\ issued = {}
    /\ CreateWith(MaxTotalsRequests, SingleItemCarts, {NoBuyer})

GetTotals == GetWith(MaxTotalsRequests)

NextTotals ==
    \/ CreateSingle
    \/ GetTotals

SpecTotals == Init /\ [][NextTotals]_vars

(* SpecOrder: a session's life around its completion: one request more than Spec, on *)
(* the carts and buyers of SpecExpiry, the clock moving by one unit.                 *)

MaxOrderRequests == 4
MaxOrderIdle == 1

OrderPeriods == {1}

CreateOrder == CreateWith(MaxOrderRequests, ExpiryLineItems, ExpiryBuyers)
GetOrder == GetWith(MaxOrderRequests)
UpdateOrder == UpdateWith(MaxOrderRequests, ExpiryLineItems, ExpiryBuyers)
CompleteOrder == CompleteWith(MaxOrderRequests)
WaitOrder == WaitWith(MaxOrderIdle, OrderPeriods)

NextOrder ==
    \/ CreateOrder
    \/ GetOrder
    \/ UpdateOrder
    \/ CompleteOrder
    \/ WaitOrder

SpecOrder == Init /\ [][NextOrder]_vars

-----------------------------------------------------------------------------
(* The tool front end of src/mcp-server.js.  Each tool builds a request body from its *)
(* arguments and sends it to the server with apiCall, without an idempotency key.     *)

\* haystack.includes(needle)
Includes(haystack, needle) ==
    \E i \in 1..(Len(haystack) - Len(needle) + 1) :
        SubSeq(haystack, i, i + Len(needle) - 1) = needle

getProductId(nameOrId) ==
    LET input == Trim(ToLowerCase(nameOrId))
    IN  IF input = <<"1">> THEN "1"
        ELSE IF input = <<"2">> THEN "2"
        ELSE IF input = <<"3">> THEN "3"
        ELSE IF Includes(input, <<"r", "o", "s", "e">>) THEN "1"
        ELSE IF Includes(input, <<"t", "u", "l", "i", "p">>) THEN "2"
        ELSE IF Includes(input, <<"l", "i", "l", "y">>)
                  \/ Includes(input, <<"l", "i", "l", "i", "e", "s">>) THEN "3"
        ELSE "1"

\* args.line_items.map(item => ({ item: { id: getProductId(item.product_id) }, quantity }))
ToolLineItems(items) ==
    [i \in 1..Len(items) |-> Entry(getProductId(items[i].product_id), items[i].quantity)]

\* if (args.buyer_email) body.buyer = { email: args.buyer_email }
ToolBuyer(buyer_email) ==
    IF buyer_email # <<>> THEN Buyer(Str(buyer_email), Undefined) ELSE NoBuyer

create_checkout(line_items, buyer_email) ==
    Create(Given(ToolLineItems(line_items)), ToolBuyer(buyer_email), "USD", NoKey)

\* args.line_items is optional here: given is whether the argument is present
update_checkout(checkout_id, buyer_email, line_items) ==
    Update(checkout_id,
           IF line_items.given THEN Given(ToolLineItems(line_items.list)) ELSE NoLineItems,
           ToolBuyer(buyer_email), NoKey)

get_checkout(checkout_id) == Get(checkout_id)

complete_checkout(checkout_id) == Complete(checkout_id, NoKey)

\* the text complete_checkout returns reads checkout.order.id: without an order in the
\* reply the read throws and the tool returns an error result
ReportsOrder(reply) == "order" \in DOMAIN reply.body /\ reply.body.order # NoOrder

(* SpecTools: the server driven through the tools alone. *)

MaxToolCalls == 3

ToolItem(product_id, quantity) == [product_id |-> product_id, quantity |-> quantity]

ToolCarts ==
    { <<ToolItem(<<"r", "e", "d", " ", "r", "o", "s", "e", "s">>, 12)>>,
      <<ToolItem(<<" ", "2", " ">>, 3), ToolItem(<<"A", "B", "C">>, 1)>>,
      <<ToolItem(<<"l", "i", "l", "i", "e", "s">>, 101)>> }

ToolEmails == {<<>>, <<"t", "@", "e", ".", "c">>}

CreateCheckoutTool ==
    /\ Request(MaxToolCalls)
    /\ \E li \in ToolCarts, e \in ToolEmails : create_checkout(li, e)

UpdateCheckoutTool ==
    /\ Request(MaxToolCalls)
    /\ \E id \in IdInputs, e \in ToolEmails, li \in {NoLineItems} \cup {Given(c) : c \in ToolCarts} :
          update_checkout(id, e, li)

GetCheckoutTool == Request(MaxToolCalls) /\ \E id \in IdInputs : get_checkout(id)

CompleteCheckoutTool == Request(MaxToolCalls) /\ \E id \in IdInputs : complete_checkout(id)

NextTools ==
    \/ CreateCheckoutTool
    \/ UpdateCheckoutTool
    \/ GetCheckoutTool
    \/ CompleteCheckoutTool

SpecTools == Init /\ [][NextTools]_vars

-----------------------------------------------------------------------------
(* Vocabulary of the claims *)

\* the step answers a request; response' then describes that request and its reply
RequestStep == served'.requests = served.requests + 1

\* the step answers a request of kind op on session id, and the handler ran (the reply
\* was not taken from processedRequests)
Handled(op, id) ==
    /\ RequestStep
    /\ response'.op = op
    /\ response'.id = id
    /\ ~response'.replayed

BuyerOf(checkout) == buyers[checkout.buyer]

Live(id) == id \in DOMAIN checkouts /\ ~IsExpired(checkouts[id], now)

\* the status the spec's transition function gives a session
ExpectedStatus(checkout) ==
    IF /\ BuyerOf(checkout).email # Unset
       /\ BuyerOf(checkout).full_name # Unset
       /\ Len(checkout.line_items) > 0
    THEN "ready_for_complete"
    ELSE "incomplete"

\* t is subtotal * 0.08 rounded half up
IsRoundedTax(t, subtotal) == 100 * t <= 8 * subtotal + 50 /\ 8 * subtotal + 50 < 100 * (t + 1)

TotalsMatch(checkout) ==
    LET subtotal == SumAmounts(checkout.line_items)
    IN  /\ Len(checkout.totals) = 3
        /\ checkout.totals[1].type = "subtotal" /\ checkout.totals[1].amount = subtotal
        /\ checkout.totals[2].type = "tax" /\ IsRoundedTax(checkout.totals[2].amount, subtotal)
        /\ checkout.totals[3].type = "total"
        /\ checkout.totals[3].amount = subtotal + checkout.totals[2].amount

InvalidRequest(reply) ==
    /\ reply.code = 400
    /\ reply.body.status = "canceled"
    /\ reply.body.messages[1].code = "invalid_request"

-----------------------------------------------------------------------------
(* Claims *)

\* C1: every stored session that is not completed has status ready_for_complete iff
\* its buyer has an email and a full_name and its cart is non-empty, and incomplete
\* otherwise.  Fails: an update that throws in the buyer block leaves the old status.
C1_StatusFollowsCartAndBuyer ==
    \A id \in DOMAIN checkouts :
        checkouts[id].status # "completed" => checkouts[id].status = ExpectedStatus(checkouts[id])

\* C2: every stored session's totals are the totals of its current line items:
\* subtotal the sum of price * quantity, tax the subtotal's 8% rounded half up, total
\* their sum.
C2_TotalsMatchLineItems == \A id \in DOMAIN checkouts : TotalsMatch(checkouts[id])

\* C2 witness: an update replaced the cart of a session and then failed in the buyer
\* block; the stored session holds the new cart.
C2_Witness ==
    /\ response.op = "update" /\ InvalidRequest(response)
    /\ response.body.messages[1].content = "name.trim is not a function"
    /\ response.id \in DOMAIN checkouts
    /\ Len(checkouts[response.id].line_items) = 1
    /\ checkouts[response.id].line_items[1].id[2] = lineItemCounter
    /\ lineItemCounter > 1
    /\ checkouts[response.id].totals[1].amount = 3588

\* C3: a stored session has an order iff its status is completed.  Fails: an update of
\* a completed session recomputes the status and keeps the order.
C3_OrderIffCompleted ==
    \A id \in DOMAIN checkouts :
        (checkouts[id].order # NoOrder) <=> (checkouts[id].status = "completed")

\* C4: a completed session stays completed for as long as it is stored (the same
\* session object under the same id).
C4_CompletedIsFinal ==
    [][ \A id \in DOMAIN checkouts \cap DOMAIN checkouts' :
            (checkouts[id].status = "completed" /\ checkouts'[id].buyer = checkouts[id].buyer)
                => checkouts'[id].status = "completed" ]_vars

\* C5: a create carrying a key whose first use since the last clear was a successful
\* create is answered with the body that first create returned.  Fails: the cached body
\* shares the session's buyer object, which update writes in place.
C5_CreateReplayIsIdentical ==
    ( /\ response.op = "create"
      /\ response.key \in DOMAIN seen
      /\ seen[response.key].op = "create"
      /\ seen[response.key].code = 201 )
        => response.body = seen[response.key].body

\* C6: a create, update or complete carrying a key that an earlier such call carried
\* since the last clear, whatever that call's outcome, returns the earlier call's body
\* and leaves the store, the line-item counter and the cache as they were.  Fails: only
\* successful calls are recorded in processedRequests.
C6_SeenKeyIsNotReexecuted ==
    [][ \A k \in Keys :
            ( /\ k \in DOMAIN seen
              /\ RequestStep
              /\ response'.op \in {"create", "update", "complete"}
              /\ response'.key = k )
                => /\ response'.body = seen[k].body
                   /\ UNCHANGED <<checkouts, buyers, lineItemCounter, processedRequests>> ]_vars

\* C7: a get, update or complete, with or without a key, on an id whose stored session
\* has expired answers 404 with status canceled and removes the session, and a request
\* on an id that was issued and is no longer stored answers 404.  Fails: a keyed call
\* found in processedRequests is answered with the cached snapshot before any check.
C7_ExpiredIsUnreachable ==
    [][ \A id \in issued :
            ( /\ RequestStep
              /\ response'.op \in {"get", "update", "complete"}
              /\ response'.id = id
              /\ (id \in DOMAIN checkouts => IsExpired(checkouts[id], now)) )
                => /\ response'.code = 404
                   /\ response'.body.status = "canceled"
                   /\ id \notin DOMAIN checkouts'
                   /\ buyers' = buyers ]_vars

\* C8: complete on a live session whose status is not ready_for_complete writes nothing
\* to the store, and the handler's answer is the session's snapshot carrying the single
\* not_ready error in place of the stored messages (a call answered from
\* processedRequests gets the cached body instead).
C8_NotReadyChangesNothing ==
    [][ \A id \in issued :
            ( /\ Live(id)
              /\ checkouts[id].status # "ready_for_complete"
              /\ RequestStep
              /\ response'.op = "complete"
              /\ response'.id = id )
                => /\ UNCHANGED <<checkouts, buyers>>
                   /\ ~response'.replayed =>
                         /\ response'.code = 400
                         /\ Len(response'.body.messages) = 1
                         /\ response'.body.messages[1].type = "error"
                         /\ response'.body.messages[1].code = "not_ready"
                         /\ [response'.body EXCEPT !.messages = checkouts[id].messages]
                              = [checkouts[id] EXCEPT !.buyer = BuyerOf(checkouts[id])] ]_vars

\* C8 witness: complete was refused with not_ready on a session that is already
\* completed, which is still stored with its order.
C8_Witness ==
    /\ response.op = "complete" /\ response.code = 400 /\ ~response.replayed
    /\ response.body.messages[1].code = "not_ready"
    /\ response.id \in DOMAIN checkouts
    /\ checkouts[response.id].status = "completed"
    /\ checkouts[response.id].order # NoOrder

\* C9: complete, when the handler runs on a live session whose status is
\* ready_for_complete, stores status completed, an order with an id and a permalink and
\* the single order_confirmed info message, keeps line_items, buyer, totals and
\* expires_at, and answers with the stored snapshot.
C9_CompleteSucceeds ==
    [][ \A id \in issued :
            ( /\ Live(id)
              /\ checkouts[id].status = "ready_for_complete"
              /\ Handled("complete", id) )
                => /\ id \in DOMAIN checkouts'
                   /\ checkouts'[id].status = "completed"
                   /\ Len(checkouts'[id].order) = 1
                   /\ DOMAIN checkouts'[id].order[1] = {"id", "permalink_url"}
                   /\ Len(checkouts'[id].messages) = 1
                   /\ checkouts'[id].messages[1].type = "info"
                   /\ checkouts'[id].messages[1].code = "order_confirmed"
                   /\ checkouts'[id].line_items = checkouts[id].line_items
                   /\ checkouts'[id].totals = checkouts[id].totals
                   /\ checkouts'[id].expires_at = checkouts[id].expires_at
                   /\ checkouts'[id].buyer = checkouts[id].buyer
                   /\ buyers' = buyers
                   /\ response'.code = 200
                   /\ response'.body = [checkouts'[id] EXCEPT !.buyer = buyers'[checkouts'[id].buyer]] ]_vars

\* C9 witness: complete has just succeeded and the session is stored as completed,
\* with the order the reply shows.
C9_Witness ==
    /\ response.op = "complete" /\ response.code = 200 /\ ~response.replayed
    /\ response.id \in DOMAIN checkouts
    /\ checkouts[response.id].status = "completed"
    /\ response.body.order # NoOrder
    /\ response.body.order = checkouts[response.id].order

\* C10: a create or update answered with invalid_request leaves the session store as it
\* was.  Fails: update writes line_items, totals and the buyer's email to the stored
\* session object before the buyer block throws.
C10_InvalidRequestChangesNothing ==
    [][ ( /\ RequestStep
          /\ response'.op \in {"create", "update"}
          /\ InvalidRequest(response') )
            => UNCHANGED <<checkouts, buyers>> ]_vars

\* a line item with a product reference and a quantity from 1 to 100
Accepted(entry) == entry.item.id # "" /\ 1 <= entry.quantity /\ entry.quantity <= 100

AllAccepted(list) == \A i \in 1..Len(list) : Accepted(list[i])

NonEmptyCarts == {li \in CartLineItems : li.given /\ Len(li.list) > 0}

\* C11: a non-empty list of line items is accepted exactly when every entry has a product
\* reference and a quantity from 1 to 100 (1 and 100 pass; 0, 101 and a negative quantity
\* are answered invalid_request).  A rejected update leaves the stored sessions and their
\* buyers as they were, also when it carried a valid buyer patch; a rejected create
\* stores nothing and leaves the line-item counter where it was.
C11_QuantityBoundsAndFrame ==
    [][ \A li \in NonEmptyCarts, b \in CartBuyers, k \in KeyInputs :
            /\ \A c \in CurrencyInputs :
                  (RequestStep /\ ~IsReplay(k) /\ Create(li, b, c, k))
                      => IF AllAccepted(li.list)
                         THEN response'.code = 201
                         ELSE /\ InvalidRequest(response')
                              /\ UNCHANGED <<checkouts, buyers, lineItemCounter, processedRequests>>
            /\ \A id \in DOMAIN checkouts :
                  (RequestStep /\ ~IsReplay(k) /\ Update(id, li, b, k))
                      => IF AllAccepted(li.list)
                         THEN response'.code = 200
                         ELSE /\ InvalidRequest(response')
                              /\ UNCHANGED <<checkouts, buyers, lineItemCounter, processedRequests>> ]_vars

\* C11 witness: an update was refused for a quantity outside 1..100 and the session it
\* named is stored without buyer and with the cart it had.
C11_Witness ==
    /\ response.op = "update" /\ InvalidRequest(response)
    /\ response.body.messages[1].content = "Quantity must be between 1 and 100"
    /\ response.id \in DOMAIN checkouts
    /\ buyers[checkouts[response.id].buyer] = EmptyBuyer
    /\ Len(checkouts[response.id].line_items) = 2

\* the catalog as the documentation lists it
Catalog ==
    ("1" :> [title |-> "Red Roses", price |-> 299])
        @@ ("2" :> [title |-> "Pink Tulips", price |-> 199])
        @@ ("3" :> [title |-> "White Lilies", price |-> 399])

InCatalog(entry) == entry.item.id \in DOMAIN Catalog

\* items is the list of the entries of input that name a catalog product, in input order,
\* each with the catalog's title and price and the entry's quantity
IsCatalogPartOf(items, input) ==
    LET known == SelectSeq(input, InCatalog)
    IN  /\ Len(items) = Len(known)
        /\ \A i \in 1..Len(known) :
              /\ items[i].item = [ id |-> known[i].item.id,
                                   title |-> Catalog[known[i].item.id].title,
                                   price |-> Catalog[known[i].item.id].price ]
              /\ items[i].quantity = known[i].quantity

\* C12: a create or update whose list is structurally valid succeeds whatever product
\* ids it names, and the session's cart is then the list's catalog entries in input
\* order with the catalog's title and price; when none is in the catalog the cart is
\* empty, the totals are zero and the status is incomplete.  A list with an unknown id
\* and a quantity out of range is answered invalid_request.
C12_UnknownProductsAreDropped ==
    [][ \A li \in NonEmptyCarts, b \in CartBuyers, k \in KeyInputs :
            LET after(id) ==
                    IF ~AllAccepted(li.list) THEN InvalidRequest(response')
                    ELSE /\ response'.code \in {200, 201}
                         /\ id \in DOMAIN checkouts'
                         /\ IsCatalogPartOf(checkouts'[id].line_items, li.list)
                         /\ response'.body.line_items = checkouts'[id].line_items
                         /\ SelectSeq(li.list, InCatalog) = <<>> =>
                               /\ checkouts'[id].line_items = <<>>
                               /\ \A i \in 1..3 : checkouts'[id].totals[i].amount = 0
                               /\ checkouts'[id].status = "incomplete"
            IN  /\ \A c \in CurrencyInputs :
                      (RequestStep /\ ~IsReplay(k) /\ Create(li, b, c, k)) => after(now)
                /\ \A id \in DOMAIN checkouts :
                      (RequestStep /\ ~IsReplay(k) /\ Update(id, li, b, k)) => after(id) ]_vars

\* C12 witness: the first request created a session with a cart, the second was an
\* update that succeeded and left it with an empty cart and zero totals.
C12_Witness ==
    /\ response.op = "update" /\ response.code = 200 /\ ~response.replayed
    /\ served.requests = 2
    /\ lineItemCounter > 0
    /\ response.id \in DOMAIN checkouts
    /\ checkouts[response.id].line_items = <<>>
    /\ checkouts[response.id].totals[3].amount = 0
    /\ checkouts[response.id].status = "incomplete"

\* C13: create with the single line item (p, q), p a catalog product and q from 1 to 100,
\* answers with the three totals subtotal, tax, total in this order, where subtotal is
\* price(p) * q, tax is subtotal * 0.08 rounded half up and total is their sum; twelve
\* of product "1" give 3588, 287, 3875.
C13_TotalsOfSingleItem ==
    [][ \A p \in DOMAIN Catalog, q \in 1..100, k \in KeyInputs, c \in CurrencyInputs :
            (RequestStep /\ Create(Given(<<Entry(p, q)>>), NoBuyer, c, k))
                => LET totals == response'.body.totals
                       subtotal == Catalog[p].price * q
                   IN  /\ response'.code = 201
                       /\ Len(totals) = 3
                       /\ <<totals[1].type, totals[2].type, totals[3].type>>
                            = <<"subtotal", "tax", "total">>
                       /\ totals[1].amount = subtotal
                       /\ IsRoundedTax(totals[2].amount, subtotal)
                       /\ totals[3].amount = subtotal + totals[2].amount
                       /\ (p = "1" /\ q = 12) =>
                             <<totals[1].amount, totals[2].amount, totals[3].amount>>
                                = <<3588, 287, 3875>> ]_vars

\* C13 witness: a create answered with a tax that was rounded up, 47.84 to 48.
C13_Witness ==
    /\ response.op = "create" /\ response.code = 201
    /\ Len(response.body.line_items) = 1
    /\ response.body.line_items[1].item.id = "1"
    /\ response.body.line_items[1].quantity = 2
    /\ response.body.totals[1].amount = 598
    /\ response.body.totals[2].amount = 48
    /\ response.body.totals[3].amount = 646

\* C14: a successful create takes an id under which no session is stored, and every
\* session stored before it is stored unchanged after it.  Fails: the id is the clock
\* value, and a create at the clock value of an earlier create replaces that session.
C14_CreateAllocatesFreshId ==
    [][ ( /\ RequestStep
          /\ response'.op = "create"
          /\ response'.code = 201
          /\ ~response'.replayed )
            => /\ response'.body.id \notin DOMAIN checkouts
               /\ \A id \in DOMAIN checkouts :
                     id \in DOMAIN checkouts' /\ checkouts'[id] = checkouts[id] ]_vars

\* C15: get leaves the buyers, the idempotency cache and the line-item counter as they
\* were; it removes the session it names when that session's expires_at is earlier than
\* the current time, leaving every other session as it was, and otherwise (live or
\* absent id) it leaves the store as it was.
C15_GetOnlyEvicts ==
    [][ \A id \in IdInputs :
            (RequestStep /\ response'.op = "get" /\ response'.id = id)
                => /\ UNCHANGED <<buyers, processedRequests, lineItemCounter>>
                   /\ IF id \in DOMAIN checkouts /\ checkouts[id].expires_at < now
                      THEN /\ DOMAIN checkouts' = DOMAIN checkouts \ {id}
                           /\ \A j \in DOMAIN checkouts' : checkouts'[j] = checkouts[j]
                      ELSE UNCHANGED checkouts ]_vars

\* C15 witness: a get was answered with the snapshot of a session at the very instant
\* of its expires_at, and the session is still stored.
C15_Witness ==
    /\ response.op = "get" /\ response.code = 200
    /\ response.id \in DOMAIN checkouts
    /\ checkouts[response.id].expires_at = now

\* what a successful update leaves in a buyer field: the cleaned value of the patch when
\* the patch carries the field as a string that sanitization accepts, the stored value
\* when the field is absent from the patch or rejected
Merged(stored, given, value, cleaned) ==
    IF given /\ value.t = "str" /\ cleaned # Unset THEN cleaned ELSE stored

\* C16: a successful update stores the newly built list in place of the cart when the
\* request supplies one and keeps cart and totals when it supplies none; each buyer field
\* takes the patch's cleaned value or, when the patch lacks the field or sanitization
\* rejects it, keeps its stored value.  No step takes an email or a full_name away from
\* a buyer that has one.
C16_UpdateReplacesCartAndMergesBuyer ==
    [][ /\ \A id \in DOMAIN checkouts, k \in KeyInputs :
              ( /\ RequestStep
                /\ response'.op = "update" /\ response'.id = id /\ response'.key = k
                /\ response'.code = 200 /\ ~response'.replayed )
                  => \A li \in LineItemInputs, b \in BuyerInputs :
                       Update(id, li, b, k)
                         => LET old == checkouts[id]
                                new == checkouts'[id]
                                was == buyers[old.buyer]
                                is == buyers'[new.buyer]
                            IN  /\ new.buyer = old.buyer
                                /\ IF li.given
                                   THEN /\ IsCatalogPartOf(new.line_items, li.list)
                                        /\ \A i \in 1..Len(new.line_items) :
                                              new.line_items[i].id[2] > lineItemCounter
                                        /\ TotalsMatch(new)
                                   ELSE /\ new.line_items = old.line_items
                                        /\ new.totals = old.totals
                                /\ is.email = Merged(was.email, b.given, b.email,
                                                     sanitizeEmail(b.email.v))
                                /\ is.full_name = Merged(was.full_name, b.given, b.full_name,
                                                         sanitizeName(b.full_name.v))
        /\ \A ref \in DOMAIN buyers :
              /\ ref \in DOMAIN buyers'
              /\ buyers[ref].email # Unset => buyers'[ref].email # Unset
              /\ buyers[ref].full_name # Unset => buyers'[ref].full_name # Unset ]_vars

\* C16 witness: the second request was a successful update that replaced the cart built
\* by the create with a newly built one, and the session has an email and no name.
C16_Witness ==
    /\ response.op = "update" /\ response.code = 200 /\ ~response.replayed
    /\ served.requests = 2
    /\ response.id \in DOMAIN checkouts
    /\ Len(checkouts[response.id].line_items) = 1
    /\ checkouts[response.id].line_items[1].id[2] = 2
    /\ buyers[checkouts[response.id].buyer].email # Unset
    /\ buyers[checkouts[response.id].buyer].full_name = Unset

\* C17: through the tools, complete_checkout on a stored session that has a cart and a
\* buyer email and was not completed before completes it and reports an order id.
\* Fails: no tool sends buyer.full_name, so determineStatus never gives
\* ready_for_complete and complete answers not_ready without an order.
C17_ToolFlowCompletes ==
    [][ \A id \in DOMAIN checkouts :
            ( /\ RequestStep
              /\ complete_checkout(id)
              /\ Len(checkouts[id].line_items) > 0
              /\ BuyerOf(checkouts[id]).email # Unset
              /\ checkouts[id].order = NoOrder )
                => /\ response'.code = 200
                   /\ checkouts'[id].status = "completed"
                   /\ ReportsOrder(response') ]_vars

\* Through the tools no session is ever completed and no reply carries an order.
ToolsNeverComplete ==
    /\ \A id \in DOMAIN checkouts :
          checkouts[id].status = "incomplete" /\ checkouts[id].order = NoOrder
    /\ ~(response.op = "complete" /\ ReportsOrder(response))

\* the ids a session can get: the clock values of the model
SessionIds == 0..(MaxExpiryIdle * SESSION_TTL)

\* a timer step that is not the hourly clear: the sweep
SweepStep == UNCHANGED <<served, nextClear>>

\* C18: a sweep removes the sessions whose expires_at is earlier than the current time
\* and no other, leaves the sessions that stay and everything else as they were; and,
\* the sweep running fairly, a stored session whose expires_at has passed is eventually
\* not stored, completed or not, accessed or not.
C18_SweepRemovesExactlyExpired ==
    /\ [][ SweepStep =>
              /\ DOMAIN checkouts' = {id \in DOMAIN checkouts : ~(checkouts[id].expires_at < now)}
              /\ \A id \in DOMAIN checkouts' : checkouts'[id] = checkouts[id]
              /\ UNCHANGED <<now, buyers, processedRequests, lineItemCounter, response>> ]_vars
    /\ \A id \in SessionIds :
          (id \in DOMAIN checkouts /\ checkouts[id].expires_at < now)
              ~> (id \notin DOMAIN checkouts)

\* C18 witness: both requests were creates, at different times, and only the later
\* session is stored: the sweep removed the earlier one and left the live one.
C18_Witness ==
    /\ served.requests = 2
    /\ Cardinality(issued) = 2
    /\ \E old \in issued, young \in issued :
          /\ old \notin DOMAIN checkouts
          /\ old + SESSION_TTL < now
          /\ young \in DOMAIN checkouts
          /\ ~(checkouts[young].expires_at < now)

\* the reply is the 404 error body with this diagnostic code
Answers(reply, code) ==
    /\ reply.code = 404
    /\ reply.body.status = "canceled"
    /\ reply.body.messages[1].code = code

\* C19: a get, update or complete that the handler answers gives not_found for an id
\* that is not stored, expired for a stored session whose expires_at is earlier than the
\* current time, and treats the session as live otherwise, also at the instant of
\* expires_at.  Whoever answers, expired is given only for a stored session and removes
\* it, and an id whose lifetime has passed never comes back to the store: expired is
\* given at most once for an id, and not_found on every later access.
C19_NotFoundVersusExpired ==
    [][ /\ \A id \in IdInputs :
              ( /\ RequestStep
                /\ response'.op \in {"get", "update", "complete"}
                /\ response'.id = id )
                  => /\ ~response'.replayed =>
                           IF id \notin DOMAIN checkouts
                               THEN Answers(response', "not_found")
                           ELSE IF checkouts[id].expires_at < now
                               THEN Answers(response', "expired")
                           ELSE response'.code # 404 /\ id \in DOMAIN checkouts'
                     /\ Answers(response', "expired") =>
                           id \in DOMAIN checkouts /\ id \notin DOMAIN checkouts'
        /\ \A id \in issued :
              (id \notin DOMAIN checkouts /\ id + SESSION_TTL < now)
                  => id \notin DOMAIN checkouts' ]_vars

\* C19 witness: an access to an id that create had handed out, whose lifetime has passed
\* and which is stored no more, was answered not_found.
C19_Witness ==
    /\ Answers(response, "not_found")
    /\ response.id \in issued
    /\ response.id \notin DOMAIN checkouts
    /\ response.id + SESSION_TTL < now

\* how many of the messages carry this code
CountCode(messages, code) == Cardinality({i \in 1..Len(messages) : messages[i].code = code})

\* messages holds one missing_buyer_email message iff the buyer has no email, one
\* missing_buyer_name message iff it has no full_name, and nothing else
MessagesMatchBuyer(messages, buyer) ==
    /\ CountCode(messages, "missing_buyer_email") = (IF buyer.email = Unset THEN 1 ELSE 0)
    /\ CountCode(messages, "missing_buyer_name") = (IF buyer.full_name = Unset THEN 1 ELSE 0)
    /\ \A i \in 1..Len(messages) :
          messages[i].code \in {"missing_buyer_email", "missing_buyer_name"}

\* C20: after a successful create or update the stored messages of the session are the
\* ones its buyer calls for, one per missing field and nothing else, whatever messages
\* the session held before, and the reply shows the same messages.
C20_MessagesAreRecomputed ==
    [][ ( /\ RequestStep
          /\ response'.op \in {"create", "update"}
          /\ response'.code \in {200, 201}
          /\ ~response'.replayed )
            => LET id == response'.body.id
               IN  /\ id \in DOMAIN checkouts'
                   /\ MessagesMatchBuyer(checkouts'[id].messages, buyers'[checkouts'[id].buyer])
                   /\ response'.body.messages = checkouts'[id].messages ]_vars

\* C20 witness: an update succeeded on a session that holds an order, whose stored
\* message was the order confirmation; the session now has no message.
C20_Witness ==
    /\ response.op = "update" /\ response.code = 200 /\ ~response.replayed
    /\ response.id \in DOMAIN checkouts
    /\ checkouts[response.id].order # NoOrder
    /\ checkouts[response.id].messages = <<>>

\* C21: a create or update that supplies an empty list of line items is not answered
\* invalid_request.  Fails: update validates whatever list is present, and
\* validateLineItems throws on the empty one.
C21_EmptyListIsNotRejected ==
    [][ \A b \in CartBuyers, k \in KeyInputs :
            /\ \A c \in CurrencyInputs :
                  (RequestStep /\ ~IsReplay(k) /\ Create(Given(<<>>), b, c, k))
                      => ~InvalidRequest(response')
            /\ \A id \in DOMAIN checkouts :
                  (RequestStep /\ ~IsReplay(k) /\ Update(id, Given(<<>>), b, k))
                      => ~InvalidRequest(response') ]_vars

\* C22: the line-item counter never decreases; a request that is rejected or answered
\* from the cache leaves it where it was, and a successful create or update advances it
\* by the number of line items it built; no two line items of the stored sessions share
\* an id.  Fails: a create or update that throws in the buyer block is rejected after
\* createLineItem has advanced the counter.
C22_LineItemIdsAreUnique ==
    [][ /\ lineItemCounter' >= lineItemCounter
        /\ ( /\ RequestStep
             /\ \/ response'.replayed
                \/ response'.code \in {400, 404} )
              => lineItemCounter' = lineItemCounter
        /\ ( /\ RequestStep
             /\ response'.op \in {"create", "update"}
             /\ response'.code \in {200, 201}
             /\ ~response'.replayed )
              => LET items == checkouts'[response'.body.id].line_items
                     built == {i \in 1..Len(items) : items[i].id[2] > lineItemCounter}
                 IN  lineItemCounter' = lineItemCounter + Cardinality(built)
        /\ \A a \in DOMAIN checkouts', b \in DOMAIN checkouts' :
              \A i \in 1..Len(checkouts'[a].line_items), j \in 1..Len(checkouts'[b].line_items) :
                  checkouts'[a].line_items[i].id = checkouts'[b].line_items[j].id
                      => (a = b /\ i = j) ]_vars

\* C23: a get, update or complete on one id, with the eviction it may do, leaves every
\* stored session under another id stored and equal in every field, its buyer included.
C23_OtherSessionsUntouched ==
    [][ \A id \in IdInputs :
            ( /\ RequestStep
              /\ response'.op \in {"get", "update", "complete"}
              /\ response'.id = id )
                => \A other \in DOMAIN checkouts \ {id} :
                       /\ other \in DOMAIN checkouts'
                       /\ checkouts'[other] = checkouts[other]
                       /\ buyers'[checkouts[other].buyer] = buyers[checkouts[other].buyer] ]_vars

\* C23 witness: a request on an expired session evicted it while a second, live session
\* is stored.
C23_Witness ==
    /\ Answers(response, "expired")
    /\ response.id \notin DOMAIN checkouts
    /\ \E other \in DOMAIN checkouts :
          /\ other # response.id
          /\ ~(checkouts[other].expires_at < now)

\* C24: when complete places an order, the session it completes has at least one line
\* item, a buyer email and a buyer full_name.  Fails: an update whose list names only
\* unknown products empties the cart and then throws in the buyer block, so the status
\* stays ready_for_complete and complete places an order for the empty cart.
C24_OrderNeedsCartAndBuyer ==
    [][ \A id \in DOMAIN checkouts :
            (Handled("complete", id) /\ response'.code = 200)
                => /\ Len(checkouts[id].line_items) > 0
                   /\ BuyerOf(checkouts[id]).email # Unset
                   /\ BuyerOf(checkouts[id]).full_name # Unset ]_vars

\* C25: complete places an order only on a session that has none, and the order of a
\* stored session never changes.  Fails: an update after the completion recomputes the
\* status to ready_for_complete, and the next complete assigns a new order.
C25_OrderAssignedOnce ==
    [][ \A id \in DOMAIN checkouts :
            /\ (Handled("complete", id) /\ response'.code = 200)
                  => checkouts[id].order = NoOrder
            /\ ( /\ checkouts[id].order # NoOrder
                 /\ id \in DOMAIN checkouts'
                 /\ checkouts'[id].buyer = checkouts[id].buyer )
                  => checkouts'[id].order = checkouts[id].order ]_vars

\* C26: a stored session's expires_at is its creation time plus SESSION_TTL, no step
\* changes it, and no request is answered with a session whose expires_at is earlier
\* than the current time.  Fails: a keyed call found in processedRequests is answered
\* with the cached snapshot of a session whose lifetime has passed.
C26_LifetimeIsFixed ==
    [][ /\ \A id \in DOMAIN checkouts' :
              /\ checkouts'[id].expires_at = id + SESSION_TTL
              /\ id \in DOMAIN checkouts
                    => checkouts'[id].expires_at = checkouts[id].expires_at
        /\ (RequestStep /\ "expires_at" \in DOMAIN response'.body)
              => response'.body.expires_at >= now ]_vars
====
